---- MODULE Spec2Model ----
(***************************************************************************)
(* Model of src/mistertango/client.py: the signed request pipeline of the  *)
(* Mistertango client (nonce, form encoding, signature, headers, POST,     *)
(* response classification) and its two public operations.                 *)
(*                                                                         *)
(* Text is a sequence of one-character strings; a few fixed words that the *)
(* code never takes apart (field names, the currency code, JSON scalars)   *)
(* are single elements of such a sequence.                                 *)
(***************************************************************************)
EXTENDS Integers, Sequences, FiniteSets, TLC

(* ------------------------------------------------------------------ *)
(* Bounds of the model                                                 *)
(* ------------------------------------------------------------------ *)

\* public calls started in one run, over all threads
MaxCalls == 2
\* clock advances in one run
MaxTicks == 2
\* longest text given to the signer in SignSpec
MaxLen == 2
\* epoch second of the first clock reading (2026-11-04 00:00:00 UTC)
BaseSec == 1793750400

Threads == {"t1", "t2"}

(* ------------------------------------------------------------------ *)
(* Module constants of client.py                                       *)
(* ------------------------------------------------------------------ *)

DEFAULT_BASE_URL == "https://api.mistertango.com:8445"

SUPPORTED_CURRENCIES == <<"EUR">>

HTTPStatus_OK == 200

(* ------------------------------------------------------------------ *)
(* Text helpers                                                        *)
(* ------------------------------------------------------------------ *)

Range(s) == {s[i] : i \in 1..Len(s)}

RECURSIVE Flatten(_)
Flatten(ss) == IF ss = <<>> THEN <<>> ELSE Head(ss) \o Flatten(Tail(ss))

\* str.join: the texts of parts with sep between neighbours
RECURSIVE Join(_, _)
Join(parts, sep) ==
    IF parts = <<>> THEN <<>>
    ELSE IF Len(parts) = 1 THEN parts[1]
    ELSE parts[1] \o sep \o Join(Tail(parts), sep)

\* str.split(sep) for a one-character separator
RECURSIVE SplitAcc(_, _, _)
SplitAcc(s, sep, cur) ==
    IF s = <<>> THEN <<cur>>
    ELSE IF Head(s) = sep THEN <<cur>> \o SplitAcc(Tail(s), sep, <<>>)
    ELSE SplitAcc(Tail(s), sep, Append(cur, Head(s)))

Split(s, sep) == SplitAcc(s, sep, <<>>)

DigitChars == <<"0", "1", "2", "3", "4", "5", "6", "7", "8", "9">>

\* str(n) for an integer n >= 0
RECURSIVE StrInt(_)
StrInt(n) ==
    IF n < 10 THEN <<DigitChars[n + 1]>>
    ELSE Append(StrInt(n \div 10), DigitChars[(n % 10) + 1])

\* the decimal digits of n, zero-filled on the left to width w
RECURSIVE ZFill(_, _)
ZFill(n, w) ==
    IF w = 0 THEN <<>>
    ELSE Append(ZFill(n \div 10, w - 1), DigitChars[(n % 10) + 1])

\* numeric order of two decimal texts without leading zeros
RECURSIVE LexLess(_, _)
LexLess(a, b) ==
    IF a = <<>> THEN FALSE
    ELSE LET da == CHOOSE i \in 1..10 : DigitChars[i] = Head(a)
             db == CHOOSE i \in 1..10 : DigitChars[i] = Head(b)
         IN  IF da # db THEN da < db ELSE LexLess(Tail(a), Tail(b))

DecLess(a, b) ==
    IF Len(a) # Len(b) THEN Len(a) < Len(b) ELSE LexLess(a, b)

IsDecimal(s) == s # <<>> /\ Range(s) \subseteq Range(DigitChars)

(* ------------------------------------------------------------------ *)
(* urllib.parse.urlencode as client.py calls it (quote_via=quote_plus) *)
(* ------------------------------------------------------------------ *)

\* characters quote_plus rewrites, among those the model's inputs use;
\* letters, digits and "_", ".", "-", "~" pass unchanged
QuoteChar(c) ==
    CASE c = " " -> <<"+">>
      [] c = "@" -> <<"%", "4", "0">>
      [] c = "+" -> <<"%", "2", "B">>
      [] c = "&" -> <<"%", "2", "6">>
      [] c = "=" -> <<"%", "3", "D">>
      [] c = "%" -> <<"%", "2", "5">>
      [] c = "/" -> <<"%", "2", "F">>
      [] OTHER   -> <<c>>

QuotePlus(s) == Flatten([i \in 1..Len(s) |-> QuoteChar(s[i])])

\* urlencode of an insertion-ordered dict, given as a sequence of <<key, value>>
urlencode(data) ==
    Join([i \in 1..Len(data) |->
            QuotePlus(data[i][1]) \o <<"=">> \o QuotePlus(data[i][2])],
         <<"&">>)

\* dict[key] = value: replaces in place, or appends as the last item
DictSet(data, key, value) ==
    IF \E i \in 1..Len(data) : data[i][1] = key
    THEN [i \in 1..Len(data) |->
            IF data[i][1] = key THEN <<key, value>> ELSE data[i]]
    ELSE Append(data, <<key, value>>)

\* what a form decoder reads back from a body: the <<name, raw value>> items
FormItems(body) ==
    LET items == Split(body, "&")
    IN  [i \in 1..Len(items) |->
            LET kv == Split(items[i], "=")
            IN  <<kv[1], IF Len(kv) > 1 THEN Join(Tail(kv), <<"=">>) ELSE <<>>>>]

FormNames(body) ==
    LET items == FormItems(body)
    IN  [i \in 1..Len(items) |-> items[i][1]]

\* the raw (still encoded) values a body carries for a field name
FormValues(body, name) ==
    LET items == FormItems(body)
    IN  {items[i][2] : i \in {j \in 1..Len(items) : items[j][1] = name}}

(* ------------------------------------------------------------------ *)
(* Mistertango: pure methods                                           *)
(* ------------------------------------------------------------------ *)

\* username.replace("@", "%40")
convert_username(username) ==
    Flatten([i \in 1..Len(username) |->
                IF username[i] = "@" THEN <<"%", "4", "0">> ELSE <<username[i]>>])

\* str(int((mktime(then.timetuple()) * 1e3 + then.microsecond / 1e3) * 10000))
\* for the clock reading then = [sec, us], in IEEE double arithmetic:
\*   then.microsecond / 1e3 added to sec * 1e3 (a value in 2^40..2^41) is
\*   rounded to a multiple of 2^-12 ms, which leaves q / 4096 ms;
\*   the product by 10000 (a value in 2^53..2^54) is rounded to an even
\*   integer, which leaves ticks;  neither rounding meets a tie.
get_nonce(then) ==
    LET q     == (then.us * 1024 + 125) \div 250
        base  == 625 * (q \div 256)
        x     == 625 * (q % 256)
        ticks == IF base % 2 = 0
                 THEN base + 2 * ((x + 256) \div 512)
                 ELSE (base - 1) + 2 * ((x + 512) \div 512)
    IN  StrInt(then.sec) \o ZFill(ticks, 7)

\* hashlib.sha256(b).digest(): a collision-free digest, kept as the term
\* that names its input
sha256(b) == [alg |-> "sha256", of |-> b]

\* hmac.new(key, msg, hashlib.sha512).digest(): a collision-free keyed MAC
hmac_sha512(key, msg) == [alg |-> "hmac-sha512", key |-> key, msg |-> msg]

\* base64.b64encode(b).decode(): one-to-one on byte strings
b64encode(b) == [b64 |-> b]

\* endpoint.encode() + digest: the digest is always the last 32 bytes, so
\* the concatenation is the pair of its two parts
Message(endpoint, digest) == [head |-> endpoint, tail |-> digest]

\* a signer that digests the payload alone
make_signature_without_nonce(secret_key, nonce, data, endpoint) ==
    b64encode(hmac_sha512(secret_key, Message(endpoint, sha256(data))))

make_signature(secret_key, nonce, data, endpoint) ==
    LET encoded   == nonce \o data
        message   == Message(endpoint, sha256(encoded))
        signature == hmac_sha512(secret_key, message)
    IN  b64encode(signature)

\* _prepare_headers handing (nonce, endpoint, data) to the signer in its own
\* parameter order, where the signer takes (nonce, data, endpoint)
prepare_headers_swapped(self, nonce, endpoint, data) ==
    [X_API_KEY    |-> self.api_key,
     X_API_SIGN   |-> b64encode(hmac_sha512(self.secret_key,
                                            Message(data, sha256(nonce \o endpoint)))),
     X_API_NONCE  |-> nonce,
     Content_Type |-> "application/x-www-form-urlencoded"]

prepare_headers(self, nonce, endpoint, data) ==
    [X_API_KEY    |-> self.api_key,
     X_API_SIGN   |-> make_signature(self.secret_key, nonce, data, endpoint),
     X_API_NONCE  |-> nonce,
     Content_Type |-> "application/x-www-form-urlencoded"]

generate_url(self, endpoint) == <<self.api_url>> \o endpoint

(* ------------------------------------------------------------------ *)
(* json.loads on the response texts of the model: a scalar, or an      *)
(* object whose members are scalars.  A JSON text is a sequence of     *)
(* tokens: punctuation, the quote character, words and numbers.        *)
(* ------------------------------------------------------------------ *)

JsonNumbers == {"0", "4063.27"}

NoValue == [t |-> "none", s |-> <<>>, items |-> <<>>]

ParseFail == [ok |-> FALSE, v |-> NoValue, rest |-> <<>>]

\* a string "...", or a number, at the head of s
ParseScalar(s) ==
    IF s = <<>> THEN ParseFail
    ELSE IF Head(s) = "\""
    THEN IF \E j \in 2..Len(s) : s[j] = "\""
         THEN LET j == CHOOSE k \in 2..Len(s) :
                          s[k] = "\"" /\ \A m \in 2..(k - 1) : s[m] # "\""
              IN  [ok |-> TRUE,
                   v |-> [t |-> "str", s |-> SubSeq(s, 2, j - 1), items |-> <<>>],
                   rest |-> SubSeq(s, j + 1, Len(s))]
         ELSE ParseFail
    ELSE IF Head(s) \in JsonNumbers
    THEN [ok |-> TRUE,
          v |-> [t |-> "num", s |-> <<Head(s)>>, items |-> <<>>],
          rest |-> Tail(s)]
    ELSE ParseFail

\* the members of an object after "{" or ",", up to the closing "}"
RECURSIVE ParseMembers(_, _)
ParseMembers(s, acc) ==
    LET k == ParseScalar(s)
    IN  IF ~k.ok \/ k.v.t # "str" \/ k.rest = <<>> \/ Head(k.rest) # ":"
        THEN ParseFail
        ELSE LET v == ParseScalar(Tail(k.rest))
                 items == Append(acc, [k |-> k.v.s, v |-> v.v])
             IN  IF ~v.ok \/ v.rest = <<>> THEN ParseFail
                 ELSE IF Head(v.rest) = "}"
                 THEN [ok |-> TRUE,
                       v |-> [t |-> "obj", s |-> <<>>, items |-> items],
                       rest |-> Tail(v.rest)]
                 ELSE IF Head(v.rest) = ","
                 THEN ParseMembers(Tail(v.rest), items)
                 ELSE ParseFail

\* json.loads(text): [ok, v]; ok = FALSE stands for json.JSONDecodeError
json_loads(text) ==
    LET p == IF text # <<>> /\ Head(text) = "{"
             THEN IF Len(text) > 1 /\ text[2] = "}"
                  THEN [ok |-> TRUE,
                        v |-> [t |-> "obj", s |-> <<>>, items |-> <<>>],
                        rest |-> SubSeq(text, 3, Len(text))]
                  ELSE ParseMembers(Tail(text), <<>>)
             ELSE ParseScalar(text)
    IN  IF p.ok /\ p.rest = <<>> THEN [ok |-> TRUE, v |-> p.v]
        ELSE [ok |-> FALSE, v |-> NoValue]

(* ------------------------------------------------------------------ *)
(* Inputs of the model                                                 *)
(* ------------------------------------------------------------------ *)

\* Mistertango.__init__
Mistertango(api_key, secret_key, username, api_url) ==
    [api_key    |-> api_key,
     secret_key |-> secret_key,
     username   |-> username,
     api_url    |-> IF api_url = "" THEN DEFAULT_BASE_URL ELSE api_url]

\* the client instances of a run: an e-mail user name, and one with a
\* character besides "@" that form encoding rewrites
Clients ==
    {Mistertango("K1", <<"s", "1">>, <<"a", "@", "b">>, ""),
     Mistertango("K2", <<"s", "2">>, <<"a", "+", "b", "@", "c">>, "https://sandbox")}

\* arguments of send_money after str(): amount, recipient, account, details
SendArgs ==
    {[amount |-> <<"1", ".", "5">>, currency |-> c, recipient |-> <<"J", " ", "D">>,
      account |-> <<"L", "T", "1">>, details |-> <<"a", "&", "b", "=", "c">>]
        : c \in {"EUR", "USD"}}

BalanceBody ==
    <<"{", "\"", "available_balance", "\"", ":", "\"", "4063.27", "\"", ",",
      "\"", "reservations", "\"", ":", "0", ",",
      "\"", "real_balance", "\"", ":", "4063.27", "}">>

\* what the transport can hand back: status code and body text
Responses ==
    {[status_code |-> 200, text |-> BalanceBody],
     [status_code |-> 200, text |-> <<"\"", "ok", "\"">>],
     [status_code |-> 200, text |-> <<"{", "\"", "status", "\"", ":">>],
     [status_code |-> 200, text |-> <<"bad", " ", "signature">>],
     [status_code |-> 201, text |-> BalanceBody],
     [status_code |-> 302, text |-> <<>>],
     [status_code |-> 400, text |-> <<"bad", " ", "signature">>],
     [status_code |-> 500, text |-> BalanceBody]}

\* microseconds the clock moves forward in one advance
TickSteps == {1}

Advance(t, d) ==
    IF t.us + d >= 1000000
    THEN [sec |-> t.sec + 1, us |-> t.us + d - 1000000]
    ELSE [sec |-> t.sec, us |-> t.us + d]

(* ------------------------------------------------------------------ *)
(* State                                                               *)
(* ------------------------------------------------------------------ *)

VARIABLES
    now,      \* the reading datetime.now() gives at this moment
    ticks,    \* clock advances so far
    calls,    \* public calls started so far
    client,   \* thread -> the Mistertango instance it calls
    loc,      \* thread -> the frame of its current call
    net,      \* the calls of requests.post, in order
    issued,   \* the results of _get_nonce, in order, with the calling thread
    sg        \* SignSpec: signer inputs a, b and the signatures computed

vars == <<now, ticks, calls, client, loc, net, issued, sg>>

pipe == <<now, ticks, calls, client, loc, net, issued>>

Idle ==
    [pc |-> "idle", id |-> 0, op |-> "none", currency |-> "", endpoint |-> <<>>,
     data |-> <<>>, nonce |-> <<>>, post_params |-> <<>>, headers |-> <<>>,
     signed |-> <<>>, r |-> <<>>, outcome |-> "none", result |-> NoValue,
     err |-> "none", msg |-> <<>>, steps |-> <<>>]

NoSign == [phase |-> "off", a |-> <<>>, b |-> <<>>, out |-> <<>>]

Init ==
    /\ now = [sec |-> BaseSec, us |-> 999999]
    /\ ticks = 0
    /\ calls = 0
    /\ client \in [Threads -> Clients]
    /\ loc = [t \in Threads |-> Idle]
    /\ net = <<>>
    /\ issued = <<>>
    /\ sg = NoSign

(* ------------------------------------------------------------------ *)
(* The clock                                                           *)
(* ------------------------------------------------------------------ *)

Tick ==
    /\ ticks < MaxTicks
    /\ \E d \in TickSteps : now' = Advance(now, d)
    /\ ticks' = ticks + 1
    /\ UNCHANGED <<calls, client, loc, net, issued, sg>>

(* ------------------------------------------------------------------ *)
(* Public operations: entry                                            *)
(* ------------------------------------------------------------------ *)

CanCall(t) == loc[t].pc \in {"idle", "done"} /\ calls < MaxCalls

\* a membership test that lets a second currency through
currency_supported_wide(currency) == currency \in {"EUR", "USD"}

\* currency in SUPPORTED_CURRENCIES
currency_supported(currency) == currency \in Range(SUPPORTED_CURRENCIES)

\* the user name passed through _convert_username before it is encoded
get_balance_data_converted(self) ==
    << <<<<"username">>, convert_username(self.username)>> >>

get_balance_data(self) == << <<<<"username">>, self.username>> >>

send_money_data(self, a) ==
    << <<<<"username">>, self.username>>,
       <<<<"amount">>, a.amount>>,
       <<<<"currency">>, <<a.currency>>>>,
       <<<<"recipient">>, a.recipient>>,
       <<<<"account">>, a.account>>,
       <<<<"details">>, a.details>> >>

\* '{}'.format(a list of str): ['EUR']
ListRepr(xs) ==
    <<"[">> \o Join([i \in 1..Len(xs) |-> <<"'", xs[i], "'">>], <<",", " ">>) \o <<"]">>

\* get_balance up to the call of _send_request
get_balance(t) ==
    /\ CanCall(t)
    /\ calls' = calls + 1
    /\ loc' = [loc EXCEPT ![t] =
                 [Idle EXCEPT !.pc = "nonce", !.id = calls + 1,
                              !.op = "get_balance", !.outcome = "running",
                              !.endpoint = <<"/", "v1", "/", "transaction", "/", "getBalance">>,
                              !.data = get_balance_data(client[t])]]
    /\ UNCHANGED <<now, ticks, client, net, issued, sg>>

\* send_money up to the call of _send_request, or to its raise
send_money(t) ==
    /\ CanCall(t)
    /\ calls' = calls + 1
    /\ \E a \in SendArgs :
         loc' = [loc EXCEPT ![t] =
                   IF ~currency_supported(a.currency)
                   THEN [Idle EXCEPT !.pc = "done", !.id = calls + 1,
                                     !.op = "send_money", !.currency = a.currency,
                                     !.outcome = "raised", !.err = "AttributeError",
                                     !.msg = <<"Currency not supported. Please use any from this list: ">>
                                             \o ListRepr(SUPPORTED_CURRENCIES)]
                   ELSE [Idle EXCEPT !.pc = "nonce", !.id = calls + 1,
                                     !.op = "send_money", !.currency = a.currency,
                                     !.outcome = "running",
                                     !.endpoint = <<"/", "v1", "/", "transaction", "/", "sendMoney">>,
                                     !.data = send_money_data(client[t], a)]]
    /\ UNCHANGED <<now, ticks, client, net, issued, sg>>

\* a direct call of _get_nonce
call_get_nonce(t) ==
    /\ CanCall(t)
    /\ calls' = calls + 1
    /\ issued' = Append(issued, [id |-> calls + 1, thread |-> t, nonce |-> get_nonce(now)])
    /\ loc' = [loc EXCEPT ![t] =
                 [Idle EXCEPT !.pc = "done", !.id = calls + 1, !.op = "_get_nonce",
                              !.outcome = "returned"]]
    /\ UNCHANGED <<now, ticks, client, net, sg>>

(* ------------------------------------------------------------------ *)
(* _send_request, statement by statement                               *)
(* ------------------------------------------------------------------ *)

Step(l, names) == [l EXCEPT !.steps = l.steps \o names]

\* nonce = self._get_nonce();  data['nonce'] = nonce
send_request_nonce(t) ==
    /\ loc[t].pc = "nonce"
    /\ LET nonce == get_nonce(now)
       IN  /\ issued' = Append(issued, [id |-> loc[t].id, thread |-> t, nonce |-> nonce])
           /\ loc' = [loc EXCEPT ![t] =
                        [Step(loc[t], <<"nonce">>) EXCEPT
                            !.pc = "encode",
                            !.nonce = nonce,
                            !.data = DictSet(loc[t].data, <<"nonce">>, nonce)]]
    /\ UNCHANGED <<now, ticks, calls, client, net, sg>>

\* post_params = urlencode(data)
send_request_encode(t) ==
    /\ loc[t].pc = "encode"
    /\ loc' = [loc EXCEPT ![t] =
                 [Step(loc[t], <<"encode">>) EXCEPT
                     !.pc = "headers",
                     !.post_params = urlencode(loc[t].data)]]
    /\ UNCHANGED <<now, ticks, calls, client, net, issued, sg>>

\* the arguments of self._prepare_headers(nonce, endpoint, post_params)
headers_args(l) == [nonce |-> l.nonce, endpoint |-> l.endpoint, data |-> l.post_params]

\* headers = self._prepare_headers(nonce, endpoint, post_params), which signs
\* and then builds the header dict; signed keeps what the signer was given
send_request_headers(t) ==
    /\ loc[t].pc = "headers"
    /\ LET a == headers_args(loc[t])
       IN  loc' = [loc EXCEPT ![t] =
                     [Step(loc[t], <<"sign", "headers">>) EXCEPT
                         !.pc = "post",
                         !.signed = <<[nonce |-> a.nonce, data |-> a.data,
                                       endpoint |-> a.endpoint]>>,
                         !.headers = <<prepare_headers(client[t], a.nonce,
                                                       a.endpoint, a.data)>>]]
    /\ UNCHANGED <<now, ticks, calls, client, net, issued, sg>>

\* the body encoded again from the parameters as they were before the nonce
post_data_without_nonce(l) == urlencode(SubSeq(l.data, 1, Len(l.data) - 1))

\* the data= argument of requests.post
post_data(l) == l.post_params

\* the request requests.post is called with
Request(t) ==
    [id       |-> loc[t].id,
     thread   |-> t,
     op       |-> loc[t].op,
     url      |-> generate_url(client[t], loc[t].endpoint),
     endpoint |-> loc[t].endpoint,
     headers  |-> loc[t].headers[1],
     data     |-> post_data(loc[t]),
     signed   |-> loc[t].signed[1]]

\* r = requests.post(...) comes back with a response
send_request_post(t) ==
    /\ loc[t].pc = "post"
    /\ net' = Append(net, Request(t))
    /\ \E r \in Responses :
         loc' = [loc EXCEPT ![t] =
                   [Step(loc[t], <<"post">>) EXCEPT !.pc = "classify", !.r = <<r>>]]
    /\ UNCHANGED <<now, ticks, calls, client, issued, sg>>

\* requests.post raises (no connection, TLS failure): nothing catches it
send_request_post_fails(t) ==
    /\ loc[t].pc = "post"
    /\ net' = Append(net, Request(t))
    /\ loc' = [loc EXCEPT ![t] =
                 [Step(loc[t], <<"post">>) EXCEPT
                     !.pc = "done", !.outcome = "raised", !.err = "ConnectionError",
                     !.data = <<>>, !.nonce = <<>>, !.post_params = <<>>,
                     !.headers = <<>>, !.signed = <<>>]]
    /\ UNCHANGED <<now, ticks, calls, client, issued, sg>>

\* a status test that raises for 4xx and 5xx only
classify_errors_only(r) ==
    IF r.status_code >= 400
    THEN [outcome |-> "raised", err |-> "PaymentException", result |-> NoValue,
          msg |-> <<"MisterTango error: ">> \o r.text]
    ELSE IF json_loads(r.text).ok
    THEN [outcome |-> "returned", err |-> "none", result |-> json_loads(r.text).v,
          msg |-> <<>>]
    ELSE [outcome |-> "raised", err |-> "JSONDecodeError", result |-> NoValue,
          msg |-> <<>>]

\* a message formatted from the status code in place of the body
classify_status_message(r) ==
    IF r.status_code # 200
    THEN [outcome |-> "raised", err |-> "PaymentException", result |-> NoValue,
          msg |-> <<"MisterTango error: ">> \o StrInt(r.status_code)]
    ELSE IF json_loads(r.text).ok
    THEN [outcome |-> "returned", err |-> "none", result |-> json_loads(r.text).v,
          msg |-> <<>>]
    ELSE [outcome |-> "raised", err |-> "JSONDecodeError", result |-> NoValue,
          msg |-> <<>>]

\* if r.status_code != HTTPStatus.OK: raise PaymentException(...)
\* return json.loads(r.text)
classify(r) ==
    IF r.status_code # HTTPStatus_OK
    THEN [outcome |-> "raised", err |-> "PaymentException", result |-> NoValue,
          msg |-> <<"MisterTango error: ">> \o r.text]
    ELSE IF json_loads(r.text).ok
    THEN [outcome |-> "returned", err |-> "none", result |-> json_loads(r.text).v,
          msg |-> <<>>]
    ELSE [outcome |-> "raised", err |-> "JSONDecodeError", result |-> NoValue,
          msg |-> <<>>]

\* a status test that sends the request again when the status is not 200
pc_after_classify_retry(r) == IF r.status_code # 200 THEN "post" ELSE "done"

\* where control goes after the status test: both branches leave _send_request
pc_after_classify(r) == "done"

send_request_classify(t) ==
    /\ loc[t].pc = "classify"
    /\ LET c == classify(loc[t].r[1])
           next == pc_after_classify(loc[t].r[1])
       IN  loc' = [loc EXCEPT ![t] =
                     IF next = "done"
                     THEN [Step(loc[t], <<"classify">>) EXCEPT
                             !.pc = "done", !.outcome = c.outcome, !.err = c.err,
                             !.result = c.result, !.msg = c.msg,
                             !.data = <<>>, !.nonce = <<>>, !.post_params = <<>>,
                             !.headers = <<>>, !.signed = <<>>]
                     ELSE [Step(loc[t], <<"classify">>) EXCEPT !.pc = next]]
    /\ UNCHANGED <<now, ticks, calls, client, net, issued, sg>>

\* one step of thread t
Do(t) ==
    \/ get_balance(t)
    \/ send_money(t)
    \/ call_get_nonce(t)
    \/ send_request_nonce(t)
    \/ send_request_encode(t)
    \/ send_request_headers(t)
    \/ send_request_post(t)
    \/ send_request_post_fails(t)
    \/ send_request_classify(t)

\* one caller: the calls of a run follow one another
Next == Tick \/ Do("t1")

\* callers in several threads: their steps interleave
ConcNext == Tick \/ \E t \in Threads : Do(t)

Spec == Init /\ [][Next]_vars

ConcSpec == Init /\ [][ConcNext]_vars

(* ------------------------------------------------------------------ *)
(* The signer on its own: two inputs that differ in one character of   *)
(* one argument                                                        *)
(* ------------------------------------------------------------------ *)

SignChars == {"1", "2"}

\* the texts of 1..MaxLen characters
Texts == UNION {[1..n -> SignChars] : n \in 1..MaxLen}

SignFields == {"secret_key", "nonce", "data", "endpoint"}

sign(a) == make_signature(a.secret_key, a.nonce, a.data, a.endpoint)

SignInit ==
    /\ now = [sec |-> BaseSec, us |-> 999999]
    /\ ticks = 0
    /\ calls = 0
    /\ client = [t \in Threads |-> Mistertango("K1", <<"s", "1">>, <<"a", "@", "b">>, "")]
    /\ loc = [t \in Threads |-> Idle]
    /\ net = <<>>
    /\ issued = <<>>
    /\ \E a \in [SignFields -> Texts] :
         sg = [phase |-> "drawn", a |-> a, b |-> a, out |-> <<>>]

\* b is a with one character of one argument replaced by another character
SignChange ==
    /\ sg.phase = "drawn"
    /\ \E f \in SignFields : \E i \in 1..Len(sg.a[f]) : \E c \in SignChars \ {sg.a[f][i]} :
         sg' = [sg EXCEPT !.phase = "changed",
                          !.b = [sg.a EXCEPT ![f] = [sg.a[f] EXCEPT ![i] = c]]]
    /\ UNCHANGED pipe

SignApply ==
    /\ sg.phase = "changed"
    /\ sg' = [sg EXCEPT !.phase = "signed", !.out = <<sign(sg.a), sign(sg.b)>>]
    /\ UNCHANGED pipe

SignNext == SignChange \/ SignApply

SignSpec == SignInit /\ [][SignNext]_vars

(* ------------------------------------------------------------------ *)
(* Properties                                                          *)
(* ------------------------------------------------------------------ *)

IsPrefix(a, b) == Len(a) <= Len(b) /\ a = SubSeq(b, 1, Len(a))

Pipeline == <<"nonce", "encode", "sign", "headers", "post", "classify">>

IsRequestOp(op) == op \in {"get_balance", "send_money"}

\* the field names of each operation's body, in the order the code inserts them
BodyNames(op) ==
    IF op = "get_balance"
    THEN << <<"username">>, <<"nonce">> >>
    ELSE << <<"username">>, <<"amount">>, <<"currency">>, <<"recipient">>,
            <<"account">>, <<"details">>, <<"nonce">> >>

\* the characters urlencode leaves alone, among those the model's inputs use
Unreserved == {"a", "b", "c", "1", "2", "."}

\* C1: every request handed to requests.post carries as its body exactly the
\* text the signer was given as payload, and that text holds the operation's
\* fields, the nonce included, in insertion order; between signing and
\* sending the frame's encoded parameters are what was signed.
C1_SignedIsSent ==
    /\ \A i \in DOMAIN net :
         /\ net[i].signed.data = net[i].data
         /\ FormNames(net[i].data) = BodyNames(net[i].op)
    /\ \A t \in Threads :
         loc[t].signed # <<>> => loc[t].signed[1].data = loc[t].post_params

C1_Witness ==
    \E i \in DOMAIN net : net[i].op = "send_money" /\ Len(FormNames(net[i].data)) = 7

\* C2: send_money with a currency other than EUR ends at once in the raised
\* AttributeError, which is not PaymentException, with no step of
\* _send_request taken: no nonce generated, nothing signed, no POST;
\* send_money with EUR never raises that error and is inside _send_request.
C2_CurrencyGate ==
    \A t \in Threads :
        loc[t].op = "send_money" =>
            /\ loc[t].currency # "EUR" =>
                 /\ loc[t].pc = "done"
                 /\ loc[t].outcome = "raised"
                 /\ loc[t].err = "AttributeError"
                 /\ loc[t].err # "PaymentException"
                 /\ loc[t].steps = <<>>
                 /\ loc[t].nonce = <<>>
                 /\ loc[t].signed = <<>>
                 /\ \A i \in DOMAIN issued : issued[i].id # loc[t].id
                 /\ \A i \in DOMAIN net : net[i].id # loc[t].id
            /\ loc[t].currency = "EUR" =>
                 /\ loc[t].err # "AttributeError"
                 /\ loc[t].pc = "nonce" \/ loc[t].steps # <<>>

C2_Witness ==
    /\ \E t \in Threads : loc[t].op = "send_money" /\ loc[t].currency = "USD"
    /\ \E i \in DOMAIN net : net[i].op = "send_money"

\* C3, as claimed: a PaymentException's message is the response body text
\* and nothing else.
C3_MessageIsBody ==
    \A t \in Threads :
        loc[t].err = "PaymentException" => loc[t].msg = loc[t].r[1].text

\* C3, amended: every response whose status is not 200 ends the call in a
\* PaymentException whose message is "MisterTango error: " followed by the
\* response body text verbatim.
C3_MessageIsPrefixedBody ==
    \A t \in Threads :
        /\ loc[t].err = "PaymentException" =>
             /\ loc[t].r # <<>>
             /\ loc[t].msg = <<"MisterTango error: ">> \o loc[t].r[1].text
        /\ (loc[t].pc = "done" /\ loc[t].r # <<>> /\ loc[t].r[1].status_code # 200) =>
             loc[t].err = "PaymentException"

C3_Witness ==
    \E t \in Threads :
        /\ loc[t].err = "PaymentException"
        /\ loc[t].r[1] = [status_code |-> 400, text |-> <<"bad", " ", "signature">>]

\* the value json.loads gives for BalanceBody
BalanceValue ==
    [t |-> "obj", s |-> <<>>,
     items |-> <<[k |-> <<"available_balance">>,
                  v |-> [t |-> "str", s |-> <<"4063.27">>, items |-> <<>>]],
                 [k |-> <<"reservations">>,
                  v |-> [t |-> "num", s |-> <<"0">>, items |-> <<>>]],
                 [k |-> <<"real_balance">>,
                  v |-> [t |-> "num", s |-> <<"4063.27">>, items |-> <<>>]]>>]

\* C4: a call that got a response ends either returned or raised, never both
\* and never neither: status 200 with well-formed JSON returns the parsed
\* value; status 200 with malformed JSON raises the decode error; any other
\* status raises PaymentException and returns nothing, whatever the body.
C4_ClassificationTotal ==
    \A t \in Threads :
        (loc[t].pc = "done" /\ loc[t].r # <<>>) =>
            LET r == loc[t].r[1]
                j == json_loads(r.text)
            IN  /\ loc[t].outcome \in {"returned", "raised"}
                /\ (loc[t].outcome = "returned") <=> (loc[t].err = "none")
                /\ loc[t].outcome = "raised" => loc[t].result = NoValue
                /\ (r.status_code = 200 /\ j.ok) =>
                     loc[t].outcome = "returned" /\ loc[t].result = j.v
                /\ (r.status_code = 200 /\ r.text = BalanceBody) =>
                     loc[t].result = BalanceValue
                /\ (r.status_code = 200 /\ ~j.ok) =>
                     loc[t].outcome = "raised" /\ loc[t].err = "JSONDecodeError"
                /\ r.status_code # 200 =>
                     loc[t].outcome = "raised" /\ loc[t].err = "PaymentException"

C4_Witness ==
    /\ \E t \in Threads :
         /\ loc[t].pc = "done"
         /\ loc[t].r # <<>>
         /\ loc[t].r[1].status_code = 200
         /\ loc[t].err = "JSONDecodeError"
    /\ \E i \in DOMAIN net : net[i].id # loc["t1"].id

\* C5: the nonces _get_nonce returns to one caller, in call order, are
\* decimal integers each numerically greater than the one before.
C5_NonceStrictlyIncreasing ==
    \A i, j \in DOMAIN issued :
        i < j => /\ IsDecimal(issued[i].nonce)
                 /\ IsDecimal(issued[j].nonce)
                 /\ DecLess(issued[i].nonce, issued[j].nonce)

\* C6: no two requests handed to requests.post carry the same nonce.
C6_NoncesUnique ==
    \A i, j \in DOMAIN net :
        i # j => net[i].headers.X_API_NONCE # net[j].headers.X_API_NONCE

\* C7: a call that passed its precondition takes the steps nonce, encode,
\* sign, headers, post, classify in that order, none twice and none left
\* out; it has called requests.post exactly once when it ends, whether it
\* returned, raised for the status or the body, or the transport raised.
C7_OnePostInOrder ==
    /\ \A i, j \in DOMAIN net : i # j => net[i].id # net[j].id
    /\ \A t \in Threads :
         IsRequestOp(loc[t].op) =>
            LET l == loc[t]
                posts == {i \in DOMAIN net : net[i].id = l.id}
            IN  /\ IsPrefix(l.steps, Pipeline)
                /\ Cardinality(posts) = (IF "post" \in Range(l.steps) THEN 1 ELSE 0)
                /\ (l.pc = "done" /\ l.err # "AttributeError") =>
                     /\ Cardinality(posts) = 1
                     /\ l.r # <<>> => l.steps = Pipeline
                     /\ l.r = <<>> =>
                          l.steps = SubSeq(Pipeline, 1, 5) /\ l.err = "ConnectionError"

C7_Witness ==
    \E t \in Threads :
        /\ loc[t].pc = "done"
        /\ loc[t].err = "ConnectionError"
        /\ \E i \in DOMAIN net : net[i].id = loc[t].id

\* C8: in every request the nonce field of the body, the X-API-NONCE header
\* and the nonce the signer was given are one decimal text; X-API-KEY is the
\* client's api_key and X-API-SIGN is the signature of that nonce, that body
\* and that endpoint under the client's secret key.
C8_NonceAndHeadersAgree ==
    \A i \in DOMAIN net :
        LET e == net[i]
            self == client[e.thread]
        IN  /\ IsDecimal(e.headers.X_API_NONCE)
            /\ FormValues(e.data, <<"nonce">>) = {e.headers.X_API_NONCE}
            /\ e.signed.nonce = e.headers.X_API_NONCE
            /\ e.signed.endpoint = e.endpoint
            /\ e.url = <<self.api_url>> \o e.endpoint
            /\ e.headers.X_API_KEY = self.api_key
            /\ e.headers.X_API_SIGN =
                 b64encode(hmac_sha512(self.secret_key,
                     Message(e.endpoint, sha256(e.headers.X_API_NONCE \o e.data))))
            /\ e.headers.Content_Type = "application/x-www-form-urlencoded"

C8_Witness ==
    /\ Len(net) >= 2
    /\ net[1].headers.X_API_NONCE # net[2].headers.X_API_NONCE
    /\ net[1].headers.X_API_SIGN # net[2].headers.X_API_SIGN

\* C9: two signer inputs that differ in one character of one of secret key,
\* nonce, payload and endpoint give different signatures, and a signature is
\* base64(MAC(secret_key, endpoint ++ digest(nonce ++ payload))), the nonce
\* and the payload joined without a separator.
C9_OneCharacterChangesSignature ==
    sg.phase = "signed" =>
        /\ sg.out[1] # sg.out[2]
        /\ sg.out[1] = b64encode(hmac_sha512(sg.a.secret_key,
                           Message(sg.a.endpoint, sha256(sg.a.nonce \o sg.a.data))))

C9_Witness ==
    /\ sg.phase = "signed"
    /\ sg.a.nonce # sg.b.nonce
    /\ sg.a.nonce \o sg.a.data = <<"1", "2", "1">>

\* C10, as claimed: the user name in the body is the user name with "@"
\* replaced by "%40" and no other character rewritten.
C10_UsernameOnlyAtEncoded ==
    \A i \in DOMAIN net :
        FormValues(net[i].data, <<"username">>) =
            {convert_username(client[net[i].thread].username)}

\* C10, amended: the user name in the body is the user name as urlencode
\* writes every field: "@" becomes "%40", and every other character outside
\* letters, digits, "_", ".", "-", "~" is rewritten too ("+" becomes "%2B");
\* for a user name of unreserved characters and "@" that is the replacement
\* of "@" by "%40" alone.
C10_UsernameFormEncoded ==
    \A i \in DOMAIN net :
        LET u == client[net[i].thread].username
        IN  /\ FormValues(net[i].data, <<"username">>) = {QuotePlus(u)}
            /\ Range(u) \subseteq (Unreserved \cup {"@"}) =>
                 FormValues(net[i].data, <<"username">>) = {convert_username(u)}

C10_Witness ==
    \E i \in DOMAIN net :
        /\ "+" \in Range(client[net[i].thread].username)
        /\ FormValues(net[i].data, <<"username">>)
              = {<<"a", "%", "2", "B", "b", "%", "4", "0", "c">>}

====
